---- MODULE Spec2Model ----
(***************************************************************************)
(* A model of pygit's object database and tree/commit layer (src/data.py). *)
(*                                                                         *)
(* Bytes and text are sequences of character codes (Python bytes / str     *)
(* restricted to ASCII, where encode/decode are the same code sequence).   *)
(* The filesystem is a function from paths (sequences of names, relative   *)
(* to the worktree, which is also the current directory) to nodes.  The    *)
(* repository lives in the filesystem under GITDIR exactly as in the code: *)
(* objects are files .pygit/objects/<oid[:2]>/<oid[2:]>, HEAD is the file  *)
(* .pygit/HEAD.                                                            *)
(***************************************************************************)
EXTENDS Integers, Sequences, FiniteSets, Bags, TLC

VARIABLES fs, tab, last, snap, mem

vars == <<fs, tab, last, snap, mem>>

(***************************************************************************)
(* Character codes.                                                        *)
(***************************************************************************)
NUL == 0
LF == 10
SP == 32
DOT == 46
SLASH == 47

B_blob == <<98, 108, 111, 98>>
B_tree == <<116, 114, 101, 101>>
B_commit == <<99, 111, 109, 109, 105, 116>>
B_parent == <<112, 97, 114, 101, 110, 116>>
B_objects == <<111, 98, 106, 101, 99, 116, 115>>
B_HEAD == <<72, 69, 65, 68>>
B_config == <<99, 111, 110, 102, 105, 103>>
B_description == <<100, 101, 115, 99, 114, 105, 112, 116, 105, 111, 110>>
B_branches == <<98, 114, 97, 110, 99, 104, 101, 115>>
B_refs == <<114, 101, 102, 115>>
B_tags == <<116, 97, 103, 115>>
B_heads == <<104, 101, 97, 100, 115>>
B_dotgit == <<46, 103, 105, 116>>
B_pycache == <<95, 95, 112, 121, 99, 97, 99, 104, 101, 95, 95>>

\* GITDIR = ".pygit"
GITDIR == <<46, 112, 121, 103, 105, 116>>

\* The width of a SHA-1 digest in bytes; its hexadecimal form is twice as long.
OidBytes == 20

(***************************************************************************)
(* Python's sequence primitives, 0-based as in the code.                   *)
(***************************************************************************)
MinOf(S) == CHOOSE x \in S : \A y \in S : x <= y

MaxOf(S) == CHOOSE x \in S : \A y \in S : x >= y

\* The start or end of a slice, clamped as Python clamps it.
PyIndex(n, i) == IF i < 0 THEN (IF n + i < 0 THEN 0 ELSE n + i) ELSE (IF i > n THEN n ELSE i)

\* s[a:b]
PySlice(s, a, b) ==
    LET lo == PyIndex(Len(s), a)
        hi == PyIndex(Len(s), b)
    IN IF hi <= lo THEN <<>> ELSE SubSeq(s, lo + 1, hi)

\* s[a:]
PySliceFrom(s, a) == PySlice(s, a, Len(s))

\* s.find(c, start) for a one-byte needle c: the first index, or -1.
PyFind(s, c, start) ==
    LET st == PyIndex(Len(s), start)
        hits == {i \in st .. (Len(s) - 1) : s[i + 1] = c}
    IN IF hits = {} THEN -1 ELSE MinOf(hits)

\* The concatenation of a sequence of sequences.
RECURSIVE Flatten(_)
Flatten(ss) == IF ss = <<>> THEN <<>> ELSE Head(ss) \o Flatten(Tail(ss))

\* s.split(sep) for a one-byte separator.
RECURSIVE PySplit(_, _)
PySplit(s, sep) ==
    LET i == PyFind(s, sep, 0)
    IN IF i < 0 THEN <<s>> ELSE <<PySlice(s, 0, i)>> \o PySplit(PySliceFrom(s, i + 1), sep)

\* sep.join(parts)
RECURSIVE PyJoin(_, _)
PyJoin(parts, sep) ==
    IF parts = <<>> THEN <<>>
    ELSE IF Len(parts) = 1 THEN parts[1]
    ELSE parts[1] \o <<sep>> \o PyJoin(Tail(parts), sep)

\* Whether text a sorts before text b (Python compares str by code point).
RECURSIVE StrLess(_, _)
StrLess(a, b) ==
    IF b = <<>> THEN FALSE
    ELSE IF a = <<>> THEN TRUE
    ELSE IF Head(a) # Head(b) THEN Head(a) < Head(b)
    ELSE StrLess(Tail(a), Tail(b))

IsWhite(c) == c \in {9, 10, 11, 12, 13, 32}

\* s.strip()
RECURSIVE LStrip(_)
LStrip(s) == IF s # <<>> /\ IsWhite(Head(s)) THEN LStrip(Tail(s)) ELSE s

RECURSIVE RStrip(_)
RStrip(s) == IF s # <<>> /\ IsWhite(s[Len(s)]) THEN RStrip(SubSeq(s, 1, Len(s) - 1)) ELSE s

PyStrip(s) == RStrip(LStrip(s))

IsDigit(c) == c >= 48 /\ c <= 57

\* A local variable of the code: what follows, K, with the value v under its name.
Bind(v, K(_)) == K(v)

\* str(n) for n >= 0
RECURSIVE PyStr(_)
PyStr(n) == IF n < 10 THEN <<48 + n>> ELSE PyStr(n \div 10) \o <<48 + (n % 10)>>

RECURSIVE DigitsValue(_, _)
DigitsValue(s, acc) ==
    IF s = <<>> THEN acc
    ELSE IF Head(s) = 95 THEN DigitsValue(Tail(s), acc)
    ELSE DigitsValue(Tail(s), 10 * acc + (Head(s) - 48))

\* int(text): surrounding whitespace, one optional sign, decimal digits which
\* single underscores may separate.  ok is FALSE where Python raises ValueError
\* (or, for a byte above 127, .decode("ascii") raises UnicodeDecodeError).
Signed(t) == t # <<>> /\ Head(t) \in {43, 45}

WellFormedDigits(d) ==
    /\ d # <<>>
    /\ \A i \in 1 .. Len(d) : IsDigit(d[i]) \/ d[i] = 95
    /\ IsDigit(d[1]) /\ IsDigit(d[Len(d)])
    /\ \A i \in 1 .. (Len(d) - 1) : ~(d[i] = 95 /\ d[i + 1] = 95)

PyInt(text) ==
    Bind(PyStrip(text), LAMBDA t :
    Bind(IF Signed(t) THEN Tail(t) ELSE t, LAMBDA d :
      IF WellFormedDigits(d)
      THEN [ok |-> TRUE,
            val |-> IF Signed(t) /\ Head(t) = 45 THEN 0 - DigitsValue(d, 0) ELSE DigitsValue(d, 0)]
      ELSE [ok |-> FALSE, val |-> 0]))

\* bytes.decode() / str.encode(): the identity on ASCII, a UnicodeDecodeError on a
\* byte that starts no UTF-8 sequence (the model holds no multi-byte sequences).
Decodable(b) == \A i \in 1 .. Len(b) : b[i] < 128

HexDigit(n) == IF n < 10 THEN 48 + n ELSE 87 + n

HexValue(c) == IF IsDigit(c) THEN c - 48 ELSE c - 87

\* bytes.hex()
RECURSIVE BytesHex(_)
BytesHex(b) ==
    IF b = <<>> THEN <<>>
    ELSE <<HexDigit(Head(b) \div 16), HexDigit(Head(b) % 16)>> \o BytesHex(Tail(b))

\* bytes.fromhex(h) for an even number of lowercase hexadecimal digits.
RECURSIVE FromHex(_)
FromHex(h) ==
    IF Len(h) < 2 THEN <<>>
    ELSE <<16 * HexValue(h[1]) + HexValue(h[2])>> \o FromHex(SubSeq(h, 3, Len(h)))

Zeros(n) == [i \in 1 .. n |-> 0]

\* format(int.from_bytes(b, "big"), "040x") for at most OidBytes bytes: the number
\* printed in hexadecimal, zero-padded on the left to 2 * OidBytes digits.
IntHex(b) == BytesHex(Zeros(OidBytes - Len(b)) \o b)

(***************************************************************************)
(* The filesystem.  A path is a sequence of names below the worktree; the   *)
(* worktree's parent directory is the path <<DOTDOT>>, so that a path that   *)
(* climbs out of the worktree has somewhere to land.                        *)
(***************************************************************************)
DOTDOT == <<46, 46>>

DirNode == [k |-> "dir"]

FileNode(d) == [k |-> "file", data |-> d]

\* A symbolic link that resolves to no directory, or another special file:
\* neither a regular file nor a directory for os.scandir, a file for os.walk.
OtherNode == [k |-> "other"]

Exists(f, p) == p \in DOMAIN f

IsDir(f, p) == p \in DOMAIN f /\ f[p].k = "dir"

IsFile(f, p) == p \in DOMAIN f /\ f[p].k = "file"

Parent(p) == SubSeq(p, 1, Len(p) - 1)

IsPrefix(p, q) == Len(p) <= Len(q) /\ SubSeq(q, 1, Len(p)) = p

\* The entries of directory p, as os.scandir and os.walk list them.
ListDir(f, p) == {q \in DOMAIN f : Len(q) = Len(p) + 1 /\ Parent(q) = p /\ q[Len(q)] # DOTDOT}

Put(f, p, node) == [q \in (DOMAIN f) \cup {p} |-> IF q = p THEN node ELSE f[q]]

Del(f, p) == [q \in (DOMAIN f) \ {p} |-> f[q]]

\* The path a "/"-separated path string names, seen from the worktree: empty and
\* "." components name the directory itself, ".." its parent.
RECURSIVE Walk(_, _)
Walk(at, comps) ==
    IF comps = <<>> THEN at
    ELSE LET c == Head(comps)
             nxt == IF c = <<>> \/ c = <<DOT>> THEN at
                    ELSE IF c = DOTDOT
                         THEN (IF at = <<>> \/ at[Len(at)] = DOTDOT
                               THEN Append(at, DOTDOT)
                               ELSE Parent(at))
                         ELSE Append(at, c)
         IN Walk(nxt, Tail(comps))

Resolve(pathstr) == Walk(<<>>, PySplit(pathstr, SLASH))

\* os.path.join for relative components
PathJoin(parts) == PyJoin(parts, SLASH)

\* os.path.dirname
DirName(pathstr) ==
    LET cuts == {i \in 1 .. Len(pathstr) : pathstr[i] = SLASH}
    IN IF cuts = {} THEN <<>> ELSE SubSeq(pathstr, 1, MaxOf(cuts) - 1)

(***************************************************************************)
(* The state the operations act on: the filesystem fs, the contents tab the *)
(* hash primitive has been applied to, and wr, the paths opened for         *)
(* writing by the operation in progress.  An operation returns its outcome  *)
(* st ("ok", "fault" with the exception err, or "hang" when it never        *)
(* returns), the state w it leaves and its return value ret.                *)
(***************************************************************************)
None == <<-1>>

Ok(w, ret) == [st |-> "ok", err |-> "", w |-> w, ret |-> ret, none |-> FALSE]

\* The outcome of returning None.
OkNone(w) == [st |-> "ok", err |-> "", w |-> w, ret |-> <<>>, none |-> TRUE]

Fault(w, err) == [st |-> "fault", err |-> err, w |-> w, ret |-> <<>>, none |-> TRUE]

\* The outcome st (with err) of a step, as the outcome of the operation.
Raise(st, err, w) == [st |-> st, err |-> err, w |-> w, ret |-> <<>>, none |-> TRUE]

\* os.makedirs(path, exist_ok=True), for the path p
RECURSIVE MakeDirs(_, _, _)
MakeDirs(f, p, n) ==
    IF n > Len(p) THEN [ok |-> TRUE, fs |-> f]
    ELSE LET q == SubSeq(p, 1, n)
         IN IF Exists(f, q)
            THEN (IF IsDir(f, q) THEN MakeDirs(f, p, n + 1) ELSE [ok |-> FALSE, fs |-> f])
            ELSE MakeDirs(Put(f, q, DirNode), p, n + 1)

\* with open(path, "w"/"wb") as f: f.write(data)
WriteFile(w, p, data) ==
    IF ~IsDir(w.fs, Parent(p)) \/ p = <<>> THEN Fault(w, "FileNotFoundError")
    ELSE IF IsDir(w.fs, p) THEN Fault(w, "IsADirectoryError")
    ELSE IF Exists(w.fs, p) /\ ~IsFile(w.fs, p) THEN Fault(w, "OSError")
    ELSE OkNone([w EXCEPT !.fs = Put(w.fs, p, FileNode(data)), !.wr = w.wr \cup {p}])

(***************************************************************************)
(* The codec and the hash primitive.  zlib is modelled by its framing: a    *)
(* two-byte header before the data, without which decompress fails.         *)
(* hashlib.sha1 is modelled by a digest of the same width made of three     *)
(* positional checksums and the length; tab holds every content hashed, and *)
(* HashInjective states that no two of them share a digest, which is all    *)
(* the code asks of SHA-1.                                                  *)
(***************************************************************************)
ZHeader == <<120, 156>>

Compress(b) == ZHeader \o b

Decompress(c) ==
    IF Len(c) >= 2 /\ SubSeq(c, 1, 2) = ZHeader
    THEN [ok |-> TRUE, data |-> SubSeq(c, 3, Len(c))]
    ELSE [ok |-> FALSE, data |-> <<>>]

\* The sum of a sequence of positive numbers (the size of the bag that holds
\* i that many times).
Sum(xs) == IF xs = <<>> THEN 0 ELSE BagCardinality(xs)

\* A checksum of data: its bytes weighted by position.
Checksum(data, a, b) ==
    Sum([i \in 1 .. Len(data) |-> (data[i] + 1) * (((a * i * i + b * i) % 251) + 1)]) % 65521

DigestOf(data) ==
    LET h1 == Checksum(data, 1, 3)
        h2 == Checksum(data, 5, 11)
        h3 == Checksum(data, 17, 29)
    IN <<h1 \div 256, h1 % 256, h2 \div 256, h2 % 256, h3 \div 256, h3 % 256>>
       \o Zeros(OidBytes - 7) \o <<Len(data) % 256>>

\* hashlib.sha1(data).hexdigest()
Sha1(data) == BytesHex(DigestOf(data))

HashInjective == \A a \in tab, b \in tab : a # b => Sha1(a) # Sha1(b)

(***************************************************************************)
(* Trees.  A record is [fmt, path, sha]: two texts and the OID in hex.     *)
(***************************************************************************)
GitTreeRecord(fmt, path, sha) == [fmt |-> fmt, path |-> path, sha |-> sha]

\* parse_record(raw, start): the index after the record and the record; ok is
\* FALSE where a .decode("utf-8") raises.
parse_record(raw, start) ==
    Bind(PyFind(raw, SP, start), LAMBDA x :
    Bind(PySlice(raw, start, x), LAMBDA fmt :
    Bind(PyFind(raw, SP, x + 1), LAMBDA y :
    Bind(PySlice(raw, x + 1, y), LAMBDA path :
    Bind(IntHex(PySlice(raw, y + 1, y + 1 + OidBytes)), LAMBDA sha :
      [ok |-> Decodable(fmt) /\ Decodable(path),
       next |-> y + 1 + OidBytes,
       record |-> GitTreeRecord(fmt, path, sha)])))))

\* parse_tree's loop from index start with the records read so far.  The loop
\* never ends once it comes back to an index it has been at (seen).
RECURSIVE parse_tree_from(_, _, _, _)
parse_tree_from(raw, start, records, seen) ==
    IF ~(start < Len(raw)) THEN [st |-> "ok", err |-> "", records |-> records]
    ELSE IF start \in seen THEN [st |-> "hang", err |-> "", records |-> records]
    ELSE Bind(parse_record(raw, start), LAMBDA r :
           IF ~r.ok THEN [st |-> "fault", err |-> "UnicodeDecodeError", records |-> records]
           ELSE parse_tree_from(raw, r.next, Append(records, r.record), seen \cup {start}))

parse_tree(raw) == parse_tree_from(raw, 0, <<>>, {})

tree_record_sort_key(record) ==
    IF record.fmt = B_tree THEN record.path \o <<SLASH>> ELSE record.path

\* list.sort(key=...): stable, each record goes after those whose key is not greater.
RECURSIVE SortInsert(_, _)
SortInsert(sorted, rec) ==
    IF sorted = <<>> THEN <<rec>>
    ELSE IF StrLess(tree_record_sort_key(rec), tree_record_sort_key(Head(sorted)))
         THEN <<rec>> \o sorted
         ELSE <<Head(sorted)>> \o SortInsert(Tail(sorted), rec)

RECURSIVE SortRecords(_)
SortRecords(records) ==
    IF records = <<>> THEN <<>>
    ELSE SortInsert(SortRecords(SubSeq(records, 1, Len(records) - 1)), records[Len(records)])

\* The serialization if the records were emitted in the order of the list
tree_serialize_unsorted(records) ==
    Flatten([i \in 1 .. Len(records) |->
               records[i].fmt \o <<SP>> \o records[i].path \o <<SP>> \o FromHex(records[i].sha)])

\* tree_serialize: the bytes; the tree's own list is left sorted.
tree_serialize(records) ==
    LET sorted == SortRecords(records)
    IN Flatten([i \in 1 .. Len(sorted) |->
                  sorted[i].fmt \o <<SP>> \o sorted[i].path \o <<SP>> \o FromHex(sorted[i].sha)])

(***************************************************************************)
(* Commits.  A KVLM (an OrderedDict) is a sequence of entries              *)
(* [key, multi, vals]: the key (None for the message), whether the value    *)
(* is a list, and the value(s).                                             *)
(***************************************************************************)
HasKey(kvlm, key) == \E i \in 1 .. Len(kvlm) : kvlm[i].key = key

KeyIndex(kvlm, key) == CHOOSE i \in 1 .. Len(kvlm) : kvlm[i].key = key

\* dct[key] = value when the key is new, else the value joins the key's list
kvlm_add(dct, key, value) ==
    IF HasKey(dct, key)
    THEN [dct EXCEPT ![KeyIndex(dct, key)] =
              [key |-> key, multi |-> TRUE, vals |-> Append(@.vals, value)]]
    ELSE Append(dct, [key |-> key, multi |-> FALSE, vals |-> <<value>>])

\* bytes.replace(b"\n ", b"\n")
RECURSIVE Unfold(_)
Unfold(b) ==
    IF b = <<>> THEN <<>>
    ELSE IF Len(b) >= 2 /\ b[1] = LF /\ b[2] = SP THEN <<LF>> \o Unfold(SubSeq(b, 3, Len(b)))
    ELSE <<Head(b)>> \o Unfold(Tail(b))

\* str.replace("\n", "\n ")
RECURSIVE Fold(_)
Fold(v) ==
    IF v = <<>> THEN <<>>
    ELSE IF Head(v) = LF THEN <<LF, SP>> \o Fold(Tail(v))
    ELSE <<Head(v)>> \o Fold(Tail(v))

\* The loop that finds the end of a value: the first newline after index end
\* that no space follows.
RECURSIVE ValueEnd(_, _, _)
ValueEnd(raw, end, seen) ==
    Bind(PyFind(raw, LF, end + 1), LAMBDA e :
      IF e + 1 >= Len(raw) THEN [st |-> "fault", err |-> "IndexError", end |-> e]
      ELSE IF raw[e + 2] # SP THEN [st |-> "ok", err |-> "", end |-> e]
      ELSE IF e \in seen THEN [st |-> "hang", err |-> "", end |-> e]
      ELSE ValueEnd(raw, e, seen \cup {e}))

\* kvlm_parse(raw, start, dct).  It calls itself once per key; coming back to a
\* start it has parsed from (seen) it recurses until RecursionError.
RECURSIVE kvlm_parse_from(_, _, _, _)
kvlm_parse_from(raw, start, dct, seen) ==
    Bind(PyFind(raw, SP, start), LAMBDA space_index :
    Bind(PyFind(raw, LF, start), LAMBDA newline_index :
      IF space_index < 0 \/ newline_index < space_index
      THEN (IF newline_index # start THEN [st |-> "fault", err |-> "AssertionError", kvlm |-> dct]
            ELSE IF ~Decodable(PySliceFrom(raw, start + 1))
                 THEN [st |-> "fault", err |-> "UnicodeDecodeError", kvlm |-> dct]
            ELSE [st |-> "ok", err |-> "",
                  kvlm |-> IF HasKey(dct, None)
                           THEN [dct EXCEPT ![KeyIndex(dct, None)] =
                                    [key |-> None, multi |-> FALSE,
                                     vals |-> <<PySliceFrom(raw, start + 1)>>]]
                           ELSE Append(dct, [key |-> None, multi |-> FALSE,
                                             vals |-> <<PySliceFrom(raw, start + 1)>>])])
      ELSE IF start \in seen THEN [st |-> "fault", err |-> "RecursionError", kvlm |-> dct]
      ELSE Bind(PySlice(raw, start, space_index), LAMBDA key :
           Bind(ValueEnd(raw, start, {}), LAMBDA e :
             IF e.st # "ok" THEN [st |-> e.st, err |-> e.err, kvlm |-> dct]
             ELSE Bind(Unfold(PySlice(raw, space_index + 1, e.end)), LAMBDA value :
                    IF ~Decodable(key) \/ ~Decodable(value)
                    THEN [st |-> "fault", err |-> "UnicodeDecodeError", kvlm |-> dct]
                    ELSE kvlm_parse_from(raw, e.end + 1, kvlm_add(dct, key, value),
                                         seen \cup {start}))))))

kvlm_parse(raw) == kvlm_parse_from(raw, 0, <<>>, {})

\* kvlm_serialize: KeyError when the KVLM holds no message.
KvlmLines(e) ==
    IF e.key = None THEN <<>>
    ELSE Flatten([j \in 1 .. Len(e.vals) |-> e.key \o <<SP>> \o Fold(e.vals[j]) \o <<LF>>])

kvlm_serialize(kvlm) ==
    IF ~HasKey(kvlm, None) THEN [ok |-> FALSE, data |-> <<>>]
    ELSE [ok |-> TRUE,
          data |-> Flatten([i \in 1 .. Len(kvlm) |-> KvlmLines(kvlm[i])])
                   \o <<LF>> \o kvlm[KeyIndex(kvlm, None)].vals[1]]

\* commit.kvlm[key]
kvlm_get(kvlm, key) ==
    Bind(kvlm[KeyIndex(kvlm, key)], LAMBDA e : IF e.multi THEN e.vals ELSE e.vals[1])

(***************************************************************************)
(* Objects as typed values, and the object store.                          *)
(***************************************************************************)
GitBlob(data) == [fmt |-> B_blob, blob_data |-> data]

GitTree(records) == [fmt |-> B_tree, records |-> records]

GitCommit(kvlm) == [fmt |-> B_commit, kvlm |-> kvlm]

\* GitObject.__init__(data) of the class for fmt: deserialize(data).
Deserialize(fmt, data) ==
    IF fmt = B_blob THEN [st |-> "ok", err |-> "", obj |-> GitBlob(data)]
    ELSE IF fmt = B_tree
         THEN Bind(parse_tree(data), LAMBDA t :
                [st |-> t.st, err |-> t.err, obj |-> GitTree(t.records)])
    ELSE Bind(kvlm_parse(data), LAMBDA k :
           [st |-> k.st, err |-> k.err, obj |-> GitCommit(k.kvlm)])

\* obj.serialize()
Serialize(obj) ==
    IF obj.fmt = B_blob THEN [ok |-> TRUE, data |-> obj.blob_data]
    ELSE IF obj.fmt = B_tree THEN [ok |-> TRUE, data |-> tree_serialize(obj.records)]
    ELSE kvlm_serialize(obj.kvlm)

\* repo_find() from the worktree, from which every command runs: the repository
\* of the current directory, opened by GitRepository(path).  The config file is
\* modelled by the one value the code reads from it, repositoryformatversion.
repo_find(w) ==
    IF ~IsDir(w.fs, <<GITDIR>>) THEN Fault(w, "Exception(No repository found)")
    ELSE IF ~Exists(w.fs, <<GITDIR, B_config>>) THEN Fault(w, "Exception(configuration file missing)")
    ELSE IF ~IsFile(w.fs, <<GITDIR, B_config>>) THEN Fault(w, "OSError")
    ELSE Bind(PyInt(w.fs[<<GITDIR, B_config>>].data), LAMBDA version :
           IF ~version.ok THEN Fault(w, "ValueError")
           ELSE IF version.val # 0 THEN Fault(w, "Exception(unsupported repositoryformatversion)")
           ELSE Ok(w, <<GITDIR>>))

\* repo_dir(repo, *path, mkdir): the path, None when it is absent and mkdir is
\* False, the exception when it is no directory.
repo_dir(w, pathstr, mkdir) ==
    Bind(Resolve(PathJoin(<<GITDIR, pathstr>>)), LAMBDA p :
      IF Exists(w.fs, p)
      THEN (IF IsDir(w.fs, p) THEN Ok(w, p) ELSE Fault(w, "Exception(Not a directory)"))
      ELSE IF mkdir
           THEN Bind(MakeDirs(w.fs, p, 1), LAMBDA m :
                  IF m.ok THEN Ok([w EXCEPT !.fs = m.fs], p) ELSE Fault(w, "FileExistsError"))
           ELSE OkNone(w))

\* repo_file(repo, "objects", hash[:2], hash[2:], mkdir)
repo_file_object(w, hash, mkdir) ==
    Bind(repo_dir(w, PathJoin(<<B_objects, PySlice(hash, 0, 2)>>), mkdir), LAMBDA d :
      IF d.st # "ok" \/ d.none THEN d
      ELSE Ok(d.w, Resolve(PathJoin(<<GITDIR, B_objects, PySlice(hash, 0, 2),
                                      PySliceFrom(hash, 2)>>))))

\* read_object(repo, hash): the object, or None
\* int(text.decode("ascii"))
PyIntAscii(text) == IF Decodable(text) THEN PyInt(text) ELSE [ok |-> FALSE, val |-> 0]

\* read_object from the decompressed bytes raw of the shard file
read_object_raw(w, raw) ==
    Bind(PyFind(raw, SP, 0), LAMBDA x :
    Bind(PySlice(raw, 0, x), LAMBDA fmt :
    Bind(PyFind(raw, NUL, x), LAMBDA y :
    Bind(PyIntAscii(PySlice(raw, x, y)), LAMBDA size :
      IF ~size.ok THEN Fault(w, "ValueError")
      ELSE IF size.val # Len(raw) - y - 1 THEN Fault(w, "Exception(Malformed object)")
      ELSE IF fmt \notin {B_commit, B_tree, B_blob} THEN Fault(w, "Exception(Unknown type)")
      ELSE Bind(Deserialize(fmt, PySliceFrom(raw, y + 1)), LAMBDA obj :
             IF obj.st = "ok" THEN Ok(w, obj.obj) ELSE Raise(obj.st, obj.err, w))))))

read_object(w, hash) ==
    Bind(repo_file_object(w, hash, FALSE), LAMBDA path :
      IF path.st # "ok" THEN path
      ELSE IF path.none THEN Fault(w, "TypeError")
      ELSE IF ~IsFile(w.fs, path.ret) THEN OkNone(w)
      ELSE Bind(Decompress(w.fs[path.ret].data), LAMBDA z :
             IF ~z.ok THEN Fault(w, "zlib.error") ELSE read_object_raw(w, z.data)))

\* obj.fmt + b" " + str(len(data)).encode("ascii") + b"\x00" + data
WithHeader(fmt, data) == fmt \o <<SP>> \o PyStr(Len(data)) \o <<NUL>> \o data

\* write_object if it wrote the shard file whether or not it exists
write_object_always(w, obj, bound) ==
    Bind(Serialize(obj), LAMBDA data :
      IF ~data.ok THEN Fault(w, "KeyError")
      ELSE Bind(WithHeader(obj.fmt, data.data), LAMBDA data_with_header :
           Bind(Sha1(data_with_header), LAMBDA sha1 :
           Bind([w EXCEPT !.tab = @ \cup {data_with_header}], LAMBDA w1 :
             IF ~bound THEN Ok(w1, sha1)
             ELSE Bind(repo_file_object(w1, sha1, TRUE), LAMBDA path :
                    IF path.st # "ok" THEN path
                    ELSE Bind(WriteFile(path.w, path.ret, Compress(data_with_header)), LAMBDA f :
                           IF f.st = "ok" THEN Ok(f.w, sha1) ELSE f))))))

\* write_object(obj, repo) with a repository (bound = TRUE) or without
write_object(w, obj, bound) ==
    Bind(Serialize(obj), LAMBDA data :
      IF ~data.ok THEN Fault(w, "KeyError")
      ELSE Bind(WithHeader(obj.fmt, data.data), LAMBDA data_with_header :
           Bind(Sha1(data_with_header), LAMBDA sha1 :
           Bind([w EXCEPT !.tab = @ \cup {data_with_header}], LAMBDA w1 :
             IF ~bound THEN Ok(w1, sha1)
             ELSE Bind(repo_file_object(w1, sha1, TRUE), LAMBDA path :
                    IF path.st # "ok" THEN path
                    ELSE IF Exists(path.w.fs, path.ret) THEN Ok(path.w, sha1)
                    ELSE Bind(WriteFile(path.w, path.ret, Compress(data_with_header)), LAMBDA f :
                           IF f.st = "ok" THEN Ok(f.w, sha1) ELSE f))))))

\* hash_object(data, fmt, write)
hash_object(w, data, fmt, write) ==
    Bind(IF write THEN repo_find(w) ELSE OkNone(w), LAMBDA repo :
      IF repo.st # "ok" THEN repo
      ELSE IF fmt \notin {B_commit, B_tree, B_blob} THEN Fault(w, "Exception(Unknown type)")
      ELSE Bind(Deserialize(fmt, data), LAMBDA obj :
             IF obj.st # "ok" THEN Raise(obj.st, obj.err, w)
             ELSE write_object(w, obj.obj, write)))

(***************************************************************************)
(* The worktree and trees.                                                 *)
(***************************************************************************)
\* is_ignored(path)
is_ignored(pathstr) ==
    LET dirs == PySplit(pathstr, SLASH)
    IN \E i \in 1 .. Len(dirs) : dirs[i] \in {GITDIR, B_dotgit, B_pycache}

\* The position of a name in the order os.scandir yields a directory's entries,
\* which the platform chooses: the names of ord in that order, other names after.
ScanRank(ord, name) ==
    IF \E i \in 1 .. Len(ord) : ord[i] = name
    THEN CHOOSE i \in 1 .. Len(ord) : ord[i] = name
    ELSE Len(ord) + 1

ScanBefore(ord, a, b) ==
    \/ ScanRank(ord, a) < ScanRank(ord, b)
    \/ ScanRank(ord, a) = ScanRank(ord, b) /\ StrLess(a, b)

\* The names of a set of entries of one directory, in scan order.
RECURSIVE ScanOrder(_, _)
ScanOrder(ord, entries) ==
    IF entries = {} THEN <<>>
    ELSE Bind(CHOOSE q \in entries : \A r \in entries \ {q} : ScanBefore(ord, q[Len(q)], r[Len(r)]),
              LAMBDA first : <<first[Len(first)]>> \o ScanOrder(ord, entries \ {first}))

\* write_tree(directory).  write_tree_loop is its for loop over the entries left
\* (names): records is tree.records, fmt and oid the loop's variables, which
\* keep the last entry's values and are unbound (bound is FALSE) before the first.
RECURSIVE write_tree(_, _, _)
RECURSIVE write_tree_loop(_, _, _, _, _, _, _, _)
write_tree_loop(w, directory, ord, names, records, bound, fmt, oid) ==
    IF names = <<>>
    THEN hash_object(w, tree_serialize(records), B_tree, TRUE)
    ELSE Bind(Head(names), LAMBDA name :
         Bind(PathJoin(<<directory, name>>), LAMBDA full :
         Bind(Resolve(full), LAMBDA p :
           IF is_ignored(full)
           THEN write_tree_loop(w, directory, ord, Tail(names), records, bound, fmt, oid)
           ELSE IF IsFile(w.fs, p)
           THEN Bind(hash_object(w, w.fs[p].data, B_blob, TRUE), LAMBDA r :
                  IF r.st # "ok" THEN r
                  ELSE write_tree_loop(r.w, directory, ord, Tail(names),
                                       Append(records, GitTreeRecord(B_blob, name, r.ret)),
                                       TRUE, B_blob, r.ret))
           ELSE IF IsDir(w.fs, p)
           THEN Bind(write_tree(w, full, ord), LAMBDA r :
                  IF r.st # "ok" THEN r
                  ELSE write_tree_loop(r.w, directory, ord, Tail(names),
                                       Append(records, GitTreeRecord(B_tree, name, r.ret)),
                                       TRUE, B_tree, r.ret))
           ELSE IF ~bound THEN Fault(w, "UnboundLocalError")
           ELSE write_tree_loop(w, directory, ord, Tail(names),
                                Append(records, GitTreeRecord(fmt, name, oid)),
                                TRUE, fmt, oid))))

write_tree(w, directory, ord) ==
    write_tree_loop(w, directory, ord, ScanOrder(ord, ListDir(w.fs, Resolve(directory))),
                    <<>>, FALSE, <<>>, <<>>)

\* A dict as the sequence of its items: d[key] = val
DictSet(d, key, val) ==
    IF \E i \in 1 .. Len(d) : d[i].key = key
    THEN [d EXCEPT ![CHOOSE i \in 1 .. Len(d) : d[i].key = key] = [key |-> key, val |-> val]]
    ELSE Append(d, [key |-> key, val |-> val])

\* d.update(e)
RECURSIVE DictUpdate(_, _)
DictUpdate(d, e) ==
    IF e = <<>> THEN d ELSE DictUpdate(DictSet(d, Head(e).key, Head(e).val), Tail(e))

\* get_tree_paths(repo, oid, base_path): the dict of path strings to blob OIDs.
\* get_tree_paths_loop is its for loop over the records left.
RECURSIVE get_tree_paths(_, _, _)
RECURSIVE get_tree_paths_loop(_, _, _, _)
get_tree_paths_loop(w, records, base_path, res) ==
    IF records = <<>> THEN Ok(w, res)
    ELSE Bind(Head(records), LAMBDA record :
         Bind(base_path \o record.path, LAMBDA path :
           IF record.fmt = B_blob
           THEN get_tree_paths_loop(w, Tail(records), base_path, DictSet(res, path, record.sha))
           ELSE IF record.fmt = B_tree
           THEN Bind(get_tree_paths(w, record.sha, path \o <<SLASH>>), LAMBDA sub :
                  IF sub.st # "ok" THEN sub
                  ELSE get_tree_paths_loop(w, Tail(records), base_path,
                                           DictUpdate(res, sub.ret)))
           ELSE Fault(w, "Exception(Unknown tree entry)")))

get_tree_paths(w, oid, base_path) ==
    Bind(read_object(w, oid), LAMBDA tree :
      IF tree.st # "ok" THEN tree
      ELSE IF tree.none THEN Fault(w, "AttributeError")
      ELSE IF tree.ret.fmt # B_tree THEN Fault(w, "AttributeError")
      ELSE get_tree_paths_loop(w, tree.ret.records, base_path, <<>>))

\* _empty_cur_dir(): os.walk(".", topdown=False) from directory p, bottom-up.
RECURSIVE EmptyDirs(_, _)
RECURSIVE EmptyDir(_, _)
RECURSIVE RemoveFiles(_, _)
RECURSIVE RemoveDirs(_, _)
EmptyDirs(f, ds) ==
    IF ds = {} THEN f
    ELSE Bind(CHOOSE d \in ds : TRUE, LAMBDA d : EmptyDirs(EmptyDir(f, d), ds \ {d}))

\* The removal of files if it spared no ignored path
RemoveFiles_all(f, files) ==
    IF files = {} THEN f
    ELSE Bind(CHOOSE q \in files : TRUE, LAMBDA q : RemoveFiles(Del(f, q), files \ {q}))

RemoveFiles(f, files) ==
    IF files = {} THEN f
    ELSE Bind(CHOOSE q \in files : TRUE, LAMBDA q :
           RemoveFiles(IF is_ignored(PathJoin(q)) THEN f ELSE Del(f, q), files \ {q}))

RemoveDirs(f, ds) ==
    IF ds = {} THEN f
    ELSE Bind(CHOOSE q \in ds : TRUE, LAMBDA q :
           RemoveDirs(IF is_ignored(PathJoin(q)) \/ ListDir(f, q) # {} THEN f ELSE Del(f, q),
                      ds \ {q}))

SubDirs(f, p) == {q \in ListDir(f, p) : IsDir(f, q)}

EmptyDir(f, p) ==
    RemoveDirs(RemoveFiles(EmptyDirs(f, SubDirs(f, p)), ListDir(f, p) \ SubDirs(f, p)),
               SubDirs(f, p))

_empty_cur_dir(w) == [w EXCEPT !.fs = EmptyDir(w.fs, <<>>)]

\* read_tree's for loop over the items left of the dict of paths
RECURSIVE read_tree_loop(_, _)
read_tree_loop(w, items) ==
    IF items = <<>> THEN OkNone(w)
    ELSE Bind(Head(items).key, LAMBDA path :
         Bind(MakeDirs(w.fs, Resolve(DirName(path)), 1), LAMBDA m :
           IF ~m.ok THEN Fault([w EXCEPT !.fs = m.fs], "FileExistsError")
           ELSE Bind(WriteFile([w EXCEPT !.fs = m.fs], Resolve(path), <<>>), LAMBDA f :
                  IF f.st # "ok" THEN f
                  ELSE Bind(read_object(f.w, Head(items).val), LAMBDA obj :
                         IF obj.st # "ok" THEN obj
                         ELSE IF obj.none THEN Fault(f.w, "AttributeError")
                         ELSE Bind(Serialize(obj.ret), LAMBDA data :
                                IF ~data.ok THEN Fault(f.w, "KeyError")
                                ELSE read_tree_loop(WriteFile(f.w, Resolve(path), data.data).w,
                                                    Tail(items)))))))

\* read_tree(oid)
read_tree(w, oid) ==
    Bind(_empty_cur_dir(w), LAMBDA w1 :
    Bind(repo_find(w1), LAMBDA repo :
      IF repo.st # "ok" THEN repo
      ELSE Bind(get_tree_paths(w1, oid, <<DOT, SLASH>>), LAMBDA paths :
             IF paths.st # "ok" THEN paths ELSE read_tree_loop(w1, paths.ret))))

(***************************************************************************)
(* HEAD, commits, the log and checkout.                                    *)
(***************************************************************************)
\* set_HEAD(oid)
set_HEAD(w, oid) ==
    Bind(repo_find(w), LAMBDA repo :
      IF repo.st # "ok" THEN repo ELSE WriteFile(w, <<GITDIR, B_HEAD>>, oid))

\* get_HEAD(): the text of the file HEAD, stripped
get_HEAD(w) ==
    Bind(repo_find(w), LAMBDA repo :
      IF repo.st # "ok" THEN repo
      ELSE IF ~Exists(w.fs, <<GITDIR, B_HEAD>>) THEN Fault(w, "FileNotFoundError")
      ELSE IF ~IsFile(w.fs, <<GITDIR, B_HEAD>>) THEN Fault(w, "IsADirectoryError")
      ELSE Ok(w, PyStrip(w.fs[<<GITDIR, B_HEAD>>].data)))

\* commit's last steps: the commit is stored and HEAD set to it
commit_store(w, commit_data) ==
    Bind(hash_object(w, commit_data, B_commit, TRUE), LAMBDA oid :
      IF oid.st # "ok" THEN oid
      ELSE Bind(set_HEAD(oid.w, oid.ret), LAMBDA set :
             IF set.st # "ok" THEN set ELSE Ok(set.w, oid.ret)))

\* commit(message) if it never recorded a parent
commit_rootless(w, message, ord) ==
    Bind(write_tree(w, <<DOT>>, ord), LAMBDA tree :
      IF tree.st # "ok" THEN tree
      ELSE Bind(get_HEAD(tree.w), LAMBDA head :
             IF head.st # "ok" THEN head
             ELSE commit_store(tree.w, B_tree \o <<SP>> \o tree.ret \o <<LF>>
                                       \o <<LF>> \o message \o <<LF>>)))

\* commit(message), with ord the order in which the directories are scanned
commit(w, message, ord) ==
    Bind(write_tree(w, <<DOT>>, ord), LAMBDA tree :
      IF tree.st # "ok" THEN tree
      ELSE Bind(get_HEAD(tree.w), LAMBDA head :
             IF head.st # "ok" THEN head
             ELSE commit_store(tree.w,
                               B_tree \o <<SP>> \o tree.ret \o <<LF>>
                               \o (IF head.ret # <<>>
                                   THEN B_parent \o <<SP>> \o head.ret \o <<LF>> ELSE <<>>)
                               \o <<LF>> \o message \o <<LF>>)))

\* log's while loop from oid, with the records {oid, is_head, message} printed so
\* far.  The OID of a commit that is missing from the store, or is no commit, is
\* printed before the message is found to be missing; out holds whole records.
LogResult(r, out) == [st |-> r.st, err |-> r.err, w |-> r.w, out |-> out]

RECURSIVE log_loop(_, _, _, _)
log_loop(w, oid, head, out) ==
    IF oid = <<>> THEN LogResult(OkNone(w), out)
    ELSE Bind(read_object(w, oid), LAMBDA c :
           IF c.st # "ok" THEN LogResult(c, out)
           ELSE IF c.none THEN LogResult(Fault(w, "AttributeError"), out)
           ELSE IF c.ret.fmt # B_commit THEN LogResult(Fault(w, "AttributeError"), out)
           ELSE Bind(c.ret.kvlm, LAMBDA kvlm :
                Bind(Append(out, [oid |-> oid, is_head |-> (oid = head),
                                  message |-> kvlm_get(kvlm, None)]), LAMBDA out1 :
                  IF ~HasKey(kvlm, B_parent) THEN LogResult(OkNone(w), out1)
                  ELSE IF kvlm[KeyIndex(kvlm, B_parent)].multi
                       \* oid is now a list: read_object fails in os.path.join
                       THEN LogResult(Fault(w, "TypeError"), out1)
                  ELSE log_loop(w, kvlm_get(kvlm, B_parent), head, out1))))

\* log(oid), oid empty for the default
log(w, oid) ==
    Bind(repo_find(w), LAMBDA repo :
      IF repo.st # "ok" THEN LogResult(repo, <<>>)
      ELSE Bind(get_HEAD(w), LAMBDA head :
             IF head.st # "ok" THEN LogResult(head, <<>>)
             ELSE log_loop(w, IF oid = <<>> THEN head.ret ELSE oid, head.ret, <<>>)))

\* checkout(oid)
checkout(w, oid) ==
    Bind(repo_find(w), LAMBDA repo :
      IF repo.st # "ok" THEN repo
      ELSE Bind(read_object(w, oid), LAMBDA c :
             IF c.st # "ok" THEN c
             ELSE IF c.none THEN Fault(w, "AttributeError")
             ELSE IF c.ret.fmt # B_commit THEN Fault(w, "AttributeError")
             ELSE IF ~HasKey(c.ret.kvlm, B_tree) THEN Fault(w, "KeyError")
             ELSE IF c.ret.kvlm[KeyIndex(c.ret.kvlm, B_tree)].multi
                  \* read_tree(list): the worktree is emptied, then read_object fails
                  THEN Fault(_empty_cur_dir(w), "TypeError")
             ELSE Bind(read_tree(w, kvlm_get(c.ret.kvlm, B_tree)), LAMBDA rt :
                    IF rt.st # "ok" THEN rt ELSE set_HEAD(rt.w, oid))))

\* repo_create(path) on a worktree that holds no repository: the skeleton of the
\* gitdir, with an empty HEAD.
repo_create(f) ==
    LET dirs == {<<GITDIR>>, <<GITDIR, B_branches>>, <<GITDIR, B_objects>>, <<GITDIR, B_refs>>,
                 <<GITDIR, B_refs, B_tags>>, <<GITDIR, B_refs, B_heads>>}
        files == {<<GITDIR, B_description>>, <<GITDIR, B_HEAD>>, <<GITDIR, B_config>>}
    IN [p \in (DOMAIN f) \cup dirs \cup files |->
          IF p \in dirs THEN DirNode
          ELSE IF p = <<GITDIR, B_config>> THEN FileNode(<<48>>)
          ELSE IF p = <<GITDIR, B_HEAD>> THEN (IF p \in DOMAIN f THEN f[p] ELSE FileNode(<<>>))
          ELSE IF p \in files THEN FileNode(<<>>)
          ELSE f[p]]

(***************************************************************************)
(* The repository as a state machine: a user edits the worktree and runs    *)
(* commands in it.  last records the last command, its argument and its     *)
(* outcome; snap the worktree's non-ignored files when each commit was made *)
(* or tree written; mem is the object a caller holds in memory.            *)
(***************************************************************************)
MaxCommits == 2
MaxMerges == 1
MaxObjects == 3

N_a == <<97>>
N_b == <<98>>
N_l == <<108>>
Contents == {<<120>>}
Messages == {<<109>>}

\* What the user may put where.
EnvFiles == {<<N_a>>}
EnvDirs == {<<N_a, B_pycache>>}

\* The order in which a directory's entries are scanned.
ScanOrders == {<<N_a, N_b>>, <<N_l, N_a>>}

World == [fs |-> fs, tab |-> tab, wr |-> {}]

\* The shard file of an OID
ShardPath(oid) == <<GITDIR, B_objects, PySlice(oid, 0, 2), PySliceFrom(oid, 2)>>

\* The OIDs of the shard files of the object store
StoredOids(f) ==
    {p[3] \o p[4] : p \in {q \in DOMAIN f : /\ Len(q) = 4
                                             /\ q[1] = GITDIR /\ q[2] = B_objects
                                             /\ IsFile(f, q)}}

\* What is stored under an OID, decompressed
StoredRaw(f, oid) == Decompress(f[ShardPath(oid)].data).data

\* The OIDs under which a commit is stored
StoredCommits(f) ==
    {oid \in StoredOids(f) : PySlice(StoredRaw(f, oid), 0, Len(B_commit) + 1) = B_commit \o <<SP>>}

\* The OIDs under which a tree is stored
StoredTrees(f) ==
    {oid \in StoredOids(f) : PySlice(StoredRaw(f, oid), 0, Len(B_tree) + 1) = B_tree \o <<SP>>}

\* An OID with no shard directory
AbsentOids == {BytesHex(<<255>> \o Zeros(OidBytes - 1))}

\* One of a set of OIDs: the least
Least(oids) == {o \in oids : \A q \in oids : o = q \/ StrLess(o, q)}

\* The OIDs a user passes where a tree is expected: the trees, one other stored
\* object, and an OID that is not stored
TreeArgs(f) == StoredTrees(f) \cup Least(StoredOids(f) \ StoredTrees(f)) \cup AbsentOids

\* The OIDs a user passes where a commit is expected
CommitArgs(f) == StoredCommits(f) \cup Least(StoredOids(f) \ StoredCommits(f)) \cup AbsentOids

\* The worktree's non-ignored regular files and their bytes
NonIgnoredFiles(f) ==
    LET ps == {p \in DOMAIN f : /\ IsFile(f, p)
                                /\ p[1] # DOTDOT
                                /\ ~is_ignored(PathJoin(p))}
    IN [p \in ps |-> f[p].data]

\* The worktree holds regular files and directories only, none of them ignored
PlainWorktree(f) ==
    \A p \in DOMAIN f :
        p # <<>> /\ p[1] \notin {DOTDOT, GITDIR} =>
            /\ IsFile(f, p) \/ IsDir(f, p)
            /\ ~is_ignored(PathJoin(p))

NoObject == <<>>

NoLast == [op |-> "none", arg |-> <<>>, st |-> "ok", err |-> "", ret |-> <<>>, none |-> TRUE,
           head0 |-> <<>>, wr |-> {}, out |-> <<>>]

Init ==
    /\ fs = repo_create([p \in {<<>>, <<DOTDOT>>} |-> DirNode])
    /\ tab = {}
    /\ last = NoLast
    /\ snap = {}
    /\ mem = NoObject

Edited(f) ==
    /\ fs' = f
    /\ last' = [NoLast EXCEPT !.op = "edit"]
    /\ UNCHANGED <<tab, snap, mem>>

\* The user writes a file
EnvWrite ==
    \E p \in EnvFiles, d \in Contents :
        /\ IsDir(fs, Parent(p))
        /\ ~Exists(fs, p) \/ IsFile(fs, p)
        /\ Edited(Put(fs, p, FileNode(d)))

\* The user makes a directory and its parents (mkdir -p)
EnvMkdir ==
    \E p \in EnvDirs :
        /\ ~Exists(fs, p)
        /\ MakeDirs(fs, p, 1).ok
        /\ Edited(MakeDirs(fs, p, 1).fs)

\* The user removes a file or a directory with all it holds (rm -r)
EnvRemove ==
    \E p \in {<<Head(q)>> : q \in EnvFiles \cup EnvDirs} :
        /\ Exists(fs, p)
        /\ Edited([q \in {q \in DOMAIN fs : ~IsPrefix(p, q)} |-> fs[q]])

\* snap with the worktree's files as they are, under an OID
Snapshot(oid) ==
    {e \in snap : e.oid # oid}
    \cup {[oid |-> oid, files |-> NonIgnoredFiles(fs), plain |-> PlainWorktree(fs)]}

Ran(op, arg, r, out) ==
    /\ fs' = r.w.fs
    /\ tab' = r.w.tab
    /\ last' = [op |-> op, arg |-> arg, st |-> r.st, err |-> r.err,
                ret |-> IF r.st = "ok" /\ op \in {"commit", "write_tree", "hash_object",
                                                  "write_object", "read_object"}
                        THEN r.ret ELSE <<>>,
                none |-> IF op = "read_object" THEN r.none ELSE TRUE,
                head0 |-> get_HEAD(World).ret, wr |-> r.w.wr, out |-> out]
    /\ mem' = mem

\* A command that wrote a tree or made a commit has run: snap holds the worktree
\* under the OID it returned.
RanSnap(op, arg, r) ==
    /\ Ran(op, arg, r, <<>>)
    /\ snap' = IF r.st = "ok" THEN Snapshot(r.ret) ELSE snap

RanLog(oid, r) == Ran("log", oid, r, r.out)

\* hash-object -w of a file, as a blob
HashObject ==
    \E d \in Contents :
        /\ Cardinality(StoredOids(fs)) < MaxObjects
        /\ Ran("hash_object", d, hash_object(World, d, B_blob, TRUE), <<>>)
        /\ UNCHANGED snap

WriteTree ==
    \E ord \in ScanOrders :
        /\ Cardinality(StoredOids(fs)) < MaxObjects
        /\ RanSnap("write_tree", <<>>, write_tree(World, <<DOT>>, ord))

ReadTree ==
    \E oid \in TreeArgs(fs) :
        /\ Ran("read_tree", oid, read_tree(World, oid), <<>>)
        /\ UNCHANGED snap

Commit ==
    \E m \in Messages, ord \in ScanOrders :
        /\ Cardinality(StoredCommits(fs)) < MaxCommits
        /\ RanSnap("commit", m, commit(World, m, ord))

Checkout ==
    \E oid \in CommitArgs(fs) :
        /\ Ran("checkout", oid, checkout(World, oid), <<>>)
        /\ UNCHANGED snap

Next ==
    \/ EnvWrite
    \/ EnvMkdir
    \/ EnvRemove
    \/ HashObject
    \/ WriteTree
    \/ ReadTree
    \/ Commit
    \/ Checkout

Spec == Init /\ [][Next]_vars

(***************************************************************************)
(* The history and its log: commits, a commit with two parents that the     *)
(* user writes by hand and stores with hash-object -t commit -w, and log.   *)
(***************************************************************************)
MergeMessage == <<109, 103>>

\* The data of a commit with the tree of commit c1 and the parents c1 and c2
MergeData(f, c1, c2) ==
    B_tree \o <<SP>>
       \o kvlm_get(read_object([fs |-> f, tab |-> {}, wr |-> {}], c1).ret.kvlm, B_tree) \o <<LF>>
       \o B_parent \o <<SP>> \o c1 \o <<LF>>
       \o B_parent \o <<SP>> \o c2 \o <<LF>>
       \o <<LF>> \o MergeMessage \o <<LF>>

HashCommit ==
    \E c1 \in StoredCommits(fs), c2 \in StoredCommits(fs) :
        /\ c1 # c2
        /\ Cardinality(StoredCommits(fs)) < MaxCommits + MaxMerges
        /\ Ran("hash_object", <<c1, c2>>,
               hash_object(World, MergeData(fs, c1, c2), B_commit, TRUE), <<>>)
        /\ UNCHANGED snap

Log ==
    \E oid \in CommitArgs(fs) \cup {<<>>} :
        /\ RanLog(oid, log(World, oid))
        /\ UNCHANGED snap

LogNext ==
    \/ EnvWrite
    \/ EnvRemove
    \/ Commit
    \/ Checkout
    \/ HashCommit
    \/ Log

LogSpec == Init /\ [][LogNext]_vars

(***************************************************************************)
(* Trees and the worktree: the worktree holds a directory D from the start; *)
(* the user writes its tree, stores trees written by hand with              *)
(* hash-object -t tree -w, and reads trees back.                            *)
(***************************************************************************)
MaxTrees == 3

N_s == <<98, SP, 99>>

\* What a name of the worktree may be at the start
ShapesA == {"none", "file_x", "file_y", "dir", "dir_x"}
ShapesS == {"none", "file_x", "dir_x"}

\* The directory f with the entry name of a shape
Shaped(f, name, shape) ==
    IF shape = "file_x" THEN Put(f, <<name>>, FileNode(<<120>>))
    ELSE IF shape = "file_y" THEN Put(f, <<name>>, FileNode(<<121>>))
    ELSE IF shape = "dir" THEN Put(f, <<name>>, DirNode)
    ELSE IF shape = "dir_x"
         THEN Put(Put(f, <<name>>, DirNode), <<name, N_a>>, FileNode(<<120>>))
    ELSE IF shape = "dir_l"
         THEN Put(Put(f, <<name>>, DirNode), <<name, N_l>>, OtherNode)
    ELSE IF shape = "link" THEN Put(f, <<name>>, OtherNode)
    ELSE f

\* The names a tree written by hand gives its record
HandNames == {<<97, SLASH, 98>>, <<DOT, DOT>>, <<DOT, DOT, SLASH, 97>>}

\* The OIDs under which a blob is stored
StoredBlobs(f) ==
    {oid \in StoredOids(f) : PySlice(StoredRaw(f, oid), 0, Len(B_blob) + 1) = B_blob \o <<SP>>}

TreeInit ==
    /\ \E sa \in ShapesA, ss \in ShapesS :
          fs = repo_create(Shaped(Shaped([p \in {<<>>, <<DOTDOT>>} |-> DirNode], N_a, sa), N_s, ss))
    /\ tab = {}
    /\ last = NoLast
    /\ snap = {}
    /\ mem = NoObject

\* The data of a tree of one record, a blob under a name
HandTree(name, sha) == B_blob \o <<SP>> \o name \o <<SP>> \o FromHex(sha)

\* hash-object -t tree -w of a file holding one record
HashTree ==
    \E name \in HandNames, sha \in StoredBlobs(fs) :
        /\ Cardinality(StoredTrees(fs)) < MaxTrees
        /\ Ran("hash_object", HandTree(name, sha),
               hash_object(World, HandTree(name, sha), B_tree, TRUE), <<>>)
        /\ UNCHANGED snap

TreeNext ==
    \/ HashTree
    \/ WriteTree
    \/ ReadTree

TreeSpec == TreeInit /\ [][TreeNext]_vars

(***************************************************************************)
(* The scan of the worktree: the worktree holds, from the start, regular    *)
(* files, directories, symbolic links and an ignored directory; the user    *)
(* edits it, writes its tree and reads trees back.                          *)
(***************************************************************************)
ShapesD == {"none", "file_x", "dir", "dir_x", "dir_l"}
ShapesL == {"none", "link"}
ShapesP == {"none", "dir_x"}

ScanInit ==
    /\ \E sa \in ShapesD, sl \in ShapesL, sp \in ShapesP :
          fs = repo_create(Shaped(Shaped(Shaped([p \in {<<>>, <<DOTDOT>>} |-> DirNode],
                                                N_a, sa), N_l, sl), B_pycache, sp))
    /\ tab = {}
    /\ last = NoLast
    /\ snap = {}
    /\ mem = NoObject

ScanNext ==
    \/ EnvWrite
    \/ EnvRemove
    \/ WriteTree
    \/ ReadTree

ScanSpec == ScanInit /\ [][ScanNext]_vars

(***************************************************************************)
(* HEAD under every command: the user edits the worktree, commits, checks   *)
(* out, stores blobs and, with hash-object -t tree -w, a tree written by    *)
(* hand whose record names the file HEAD of the gitdir, and reads trees.    *)
(***************************************************************************)
\* The name of HEAD, from the worktree
N_head == GITDIR \o <<SLASH>> \o B_HEAD

\* hash-object -t tree -w of a file holding one record, a blob under the name of HEAD
HashHeadTree ==
    \E sha \in StoredBlobs(fs) :
        /\ Cardinality(StoredTrees(fs)) < MaxTrees
        /\ Ran("hash_object", HandTree(N_head, sha),
               hash_object(World, HandTree(N_head, sha), B_tree, TRUE), <<>>)
        /\ UNCHANGED snap

HeadNext ==
    \/ EnvWrite
    \/ HashObject
    \/ HashHeadTree
    \/ WriteTree
    \/ ReadTree
    \/ Commit
    \/ Checkout

HeadSpec == Init /\ [][HeadNext]_vars

(***************************************************************************)
(* The object store under a caller that holds an object in memory, writes   *)
(* it and reads objects back, while shard files may be overwritten from     *)
(* outside.                                                                 *)
(***************************************************************************)
MaxRecords == 2

\* An OID for the records of trees built in memory
SomeSha == BytesHex(<<1, 2, 3>> \o Zeros(OidBytes - 3))

OtherSha == BytesHex(<<4, 5>> \o Zeros(OidBytes - 2))

RecordNames == {N_a, N_a \o <<SLASH>>, N_s}

Records == {GitTreeRecord(fmt, path, SomeSha) : fmt \in {B_blob, B_tree}, path \in RecordNames}

RecordLists == UNION {[1 .. n -> Records] : n \in 0 .. MaxRecords}

Kvlms ==
    LET tree == [key |-> B_tree, multi |-> FALSE, vals |-> <<SomeSha>>]
        one == [key |-> B_parent, multi |-> FALSE, vals |-> <<SomeSha>>]
        two == [key |-> B_parent, multi |-> TRUE, vals |-> <<SomeSha, OtherSha>>]
        folded == [key |-> <<103>>, multi |-> FALSE, vals |-> <<<<120, LF, 121, LF>>>>]
        msg(m) == [key |-> None, multi |-> FALSE, vals |-> <<m>>]
    IN {<<tree>> \o mid \o <<msg(m)>> :
           mid \in {<<>>, <<one>>, <<two>>, <<folded, one>>}, m \in {<<>>, <<109, LF, LF, SP, 110>>}}

Objects ==
    {GitBlob(d) : d \in {<<>>, <<120>>, <<NUL, SP, 120>>}}
    \cup {GitTree(r) : r \in RecordLists}
    \cup {GitCommit(k) : k \in Kvlms}

\* What write_object stores for an object, and under which OID
RawOf(obj) == WithHeader(obj.fmt, Serialize(obj).data)

OidOf(obj) == Sha1(RawOf(obj))

\* What a shard file may be overwritten with
RawFiles ==
    {Compress(<<98, 108, 111, 98, SP, 57, NUL, 120>>),
     Compress(<<116, 97, 103, SP, 49, NUL, 120>>),
     Compress(<<98, 108, 111, 98, SP, 120, NUL, 120>>),
     <<98, 108, 111, 98>>}

\* An OID of the shard directory of oid with no shard file (unless it is oid)
Sibling(oid) == PySlice(oid, 0, 2) \o BytesHex(Zeros(OidBytes - 1))

ObjInit ==
    /\ fs = repo_create([p \in {<<>>, <<DOTDOT>>} |-> DirNode])
    /\ tab = {}
    /\ last = NoLast
    /\ snap = {}
    /\ mem \in Objects

\* write_object(mem, repo)
WriteObject ==
    /\ Ran("write_object", <<>>, write_object(World, mem, TRUE), <<>>)
    /\ UNCHANGED snap

\* read_object(repo, oid)
ReadObject ==
    \E oid \in StoredOids(fs) \cup {Sibling(o) : o \in StoredOids(fs)} \cup AbsentOids :
        /\ Ran("read_object", oid, read_object(World, oid), <<>>)
        /\ UNCHANGED snap

\* A shard file is overwritten
Tamper ==
    \E oid \in StoredOids(fs), c \in RawFiles :
        /\ fs' = Put(fs, ShardPath(oid), FileNode(c))
        /\ last' = [NoLast EXCEPT !.op = "edit"]
        /\ UNCHANGED <<tab, snap, mem>>

ObjNext ==
    \/ WriteObject
    \/ ReadObject
    \/ Tamper

ObjSpec == ObjInit /\ [][ObjNext]_vars

(***************************************************************************)
(* Properties of commits, checkout, the store and the log.                  *)
(***************************************************************************)
HEAD == get_HEAD(World).ret

\* C1: when commit(m) has returned oid, HEAD is oid; the commit stored under
\* oid has exactly one tree key, whose value is the OID write_tree gives for the
\* worktree; its message is m and a newline; and it has exactly one parent, the
\* HEAD before the call, when that was not empty, and no parent key when it was.
CommitChain ==
    last.op = "commit" /\ last.st = "ok" =>
        LET c == read_object(World, last.ret)
            kvlm == c.ret.kvlm
            Single(key) == /\ Cardinality({i \in 1 .. Len(kvlm) : kvlm[i].key = key}) = 1
                           /\ ~kvlm[KeyIndex(kvlm, key)].multi
        IN /\ HEAD = last.ret
           /\ c.st = "ok" /\ ~c.none /\ c.ret.fmt = B_commit
           /\ Single(B_tree)
           /\ \A ord \in ScanOrders :
                 kvlm_get(kvlm, B_tree) = write_tree(World, <<DOT>>, ord).ret
           /\ Single(None)
           /\ kvlm_get(kvlm, None) = last.arg \o <<LF>>
           /\ IF last.head0 # <<>>
              THEN Single(B_parent) /\ kvlm_get(kvlm, B_parent) = last.head0
              ELSE ~HasKey(kvlm, B_parent)

\* A commit made on top of another has returned.
CommitChainWitness ==
    /\ last.op = "commit" /\ last.st = "ok"
    /\ last.head0 # <<>>
    /\ last.head0 # last.ret
    /\ NonIgnoredFiles(fs) # <<>>

\* C2: checkout of a commit made by commit(), after any edits and commits,
\* succeeds, leaves the worktree's non-ignored files equal to those the
\* worktree had when the commit was made, and leaves HEAD at that commit.
CheckoutRestores ==
    \A e \in snap :
        last.op = "checkout" /\ e.oid = last.arg /\ e.oid \in StoredCommits(fs) =>
            /\ last.st = "ok"
            /\ NonIgnoredFiles(fs) = e.files
            /\ HEAD = last.arg

FirstParent(oid) ==
    LET kvlm == read_object(World, oid).ret.kvlm
    IN IF HasKey(kvlm, B_parent) THEN kvlm[KeyIndex(kvlm, B_parent)].vals[1] ELSE <<>>

\* The commits from oid along first parents, at most n of them
RECURSIVE FirstParentChain(_, _)
FirstParentChain(oid, n) ==
    IF oid = <<>> \/ n = 0 \/ oid \notin StoredCommits(fs) THEN <<>>
    ELSE <<oid>> \o FirstParentChain(FirstParent(oid), n - 1)

\* C10: log from a commit returns having printed one record for each commit
\* of the first-parent chain from it, child before parent, each commit once,
\* the one that is HEAD marked; of several parents it follows the first.
LogFirstParent ==
    LET start == IF last.arg = <<>> THEN last.head0 ELSE last.arg
        chain == FirstParentChain(start, Cardinality(StoredCommits(fs)))
    IN last.op = "log" /\ start \in StoredCommits(fs) =>
          /\ last.st = "ok"
          /\ Len(last.out) = Len(chain)
          /\ \A i \in 1 .. Len(chain) :
                /\ last.out[i].oid = chain[i]
                /\ last.out[i].is_head = (chain[i] = HEAD)
                /\ last.out[i].message
                     = kvlm_get(read_object(World, chain[i]).ret.kvlm, None)
          /\ \A i, j \in 1 .. Len(chain) : chain[i] = chain[j] => i = j

\* C12: after any commands, those that fault included, HEAD is empty or is
\* the OID of a commit that is stored, and a checkout that faults leaves HEAD
\* as it was.
HeadIsCommit ==
    /\ HEAD = <<>> \/ HEAD \in StoredCommits(fs)
    /\ HEAD # <<>> =>
          LET c == read_object(World, HEAD)
          IN c.st = "ok" /\ ~c.none /\ c.ret.fmt = B_commit
    /\ last.op = "checkout" /\ last.st # "ok" => HEAD = last.head0

(***************************************************************************)
(* Properties of trees and the worktree.                                    *)
(***************************************************************************)
\* C3: write_tree of a worktree of regular files and directories, none
\* ignored, returns a tree, and read_tree of that tree succeeds and leaves
\* exactly the files the worktree had, with the same bytes.
WorktreeRoundTrip ==
    /\ last.op = "write_tree" /\ PlainWorktree(fs) => last.st = "ok"
    /\ \A e \in snap :
          last.op = "read_tree" /\ e.oid = last.arg /\ e.oid \in StoredTrees(fs) /\ e.plain =>
              /\ last.st = "ok"
              /\ NonIgnoredFiles(fs) = e.files

\* A name no record of a tree may have
IllegalName(name) == PyFind(name, SLASH, 0) >= 0 \/ name = <<DOT>> \/ name = <<DOT, DOT>>

\* The paths read_tree derives from the records with an illegal name of the
\* tree stored under oid and of its subtrees, at most depth levels down
RECURSIVE IllegalPaths(_, _, _)
IllegalPaths(oid, base_path, depth) ==
    LET tree == read_object(World, oid)
        OfRecord(r) ==
            IF IllegalName(r.path) THEN {Resolve(base_path \o r.path)}
            ELSE IF r.fmt = B_tree
                 THEN IllegalPaths(r.sha, base_path \o r.path \o <<SLASH>>, depth - 1)
            ELSE {}
    IN IF depth = 0 \/ oid \notin StoredTrees(fs) \/ tree.st # "ok" THEN {}
       ELSE UNION {OfRecord(tree.ret.records[i]) : i \in 1 .. Len(tree.ret.records)}

\* C7: read_tree of a tree that holds, at any depth, a record whose name
\* contains "/" or is "." or "..", faults with MalformedTree and writes no
\* file at a path derived from such a record.
TreeNameSafety ==
    LET bad == IllegalPaths(last.arg, <<DOT, SLASH>>, Cardinality(StoredTrees(fs)))
    IN last.op = "read_tree" /\ last.arg \in StoredTrees(fs) /\ bad # {} =>
          /\ last.st = "fault"
          /\ last.err = "MalformedTree"
          /\ last.wr \cap bad = {}

\* A set as a sequence, in some order
RECURSIVE SetToSeq(_)
SetToSeq(S) ==
    IF S = {} THEN <<>>
    ELSE LET x == CHOOSE x \in S : TRUE IN <<x>> \o SetToSeq(S \ {x})

\* The records the tree of directory p of the filesystem f is to hold: a blob
\* with the OID of its bytes for each regular file that is not ignored, a tree
\* with the OID of its own tree for each directory that is not ignored
RECURSIVE TreeRecordsOf(_, _)
TreeRecordsOf(f, p) ==
    LET kept == {q \in ListDir(f, p) : ~is_ignored(PathJoin(q))}
        OidOfTree(q) == Sha1(WithHeader(B_tree, tree_serialize(SetToSeq(TreeRecordsOf(f, q)))))
    IN {GitTreeRecord(B_blob, q[Len(q)], Sha1(WithHeader(B_blob, f[q].data))) :
           q \in {q \in kept : IsFile(f, q)}}
       \cup {GitTreeRecord(B_tree, q[Len(q)], OidOfTree(q)) : q \in {q \in kept : IsDir(f, q)}}

\* C11: write_tree returns a tree that holds exactly one record for each
\* regular file and each directory of the worktree that is not ignored, a blob
\* with the OID of the file's bytes or a tree with the OID of the directory's
\* tree, and no record for an entry that is ignored or is neither a regular
\* file nor a directory, in whatever order the entries are scanned.
WriteTreeSkips ==
    last.op = "write_tree" =>
        /\ last.st = "ok"
        /\ LET tree == read_object(World, last.ret)
           IN /\ tree.st = "ok" /\ ~tree.none /\ tree.ret.fmt = B_tree
              /\ Len(tree.ret.records) = Cardinality(TreeRecordsOf(fs, <<>>))
              /\ {tree.ret.records[i] : i \in 1 .. Len(tree.ret.records)} = TreeRecordsOf(fs, <<>>)

(***************************************************************************)
(* Properties of the object store.                                          *)
(***************************************************************************)
\* An object as read_object returns it: a tree with its records in the order
\* of serialization
Canonical(obj) == IF obj.fmt = B_tree THEN GitTree(SortRecords(obj.records)) ELSE obj

\* C4: read_object of what write_object stored for an object returns the
\* object: a blob with its bytes, a tree of records with legal names with its
\* records in the order of serialization, a commit with its keys in order,
\* its values and its message.
ObjectRoundTrip ==
    /\ last.op = "read_object"
    /\ last.arg = OidOf(mem)
    /\ last.arg \in StoredOids(fs)
    /\ StoredRaw(fs, last.arg) = RawOf(mem)
    /\ mem.fmt = B_tree => \A i \in 1 .. Len(mem.records) : ~IllegalName(mem.records[i].path)
    => /\ last.st = "ok"
       /\ ~last.none
       /\ last.ret = Canonical(mem)

\* C5: write_object returns the OID of header and payload; when the shard
\* file of that OID exists it leaves the filesystem as it is and opens no file
\* for writing; and unless that file held something else, exactly one shard
\* file holds header and payload afterwards, the one of that OID.
IdempotentStore ==
    [][last'.op = "write_object" =>
          /\ last'.st = "ok"
          /\ last'.ret = OidOf(mem)
          /\ OidOf(mem) \in StoredOids(fs) => fs' = fs /\ last'.wr = {}
          /\ OidOf(mem) \notin StoredOids(fs) \/ StoredRaw(fs, OidOf(mem)) = RawOf(mem) =>
                {oid \in StoredOids(fs') : StoredRaw(fs', oid) = RawOf(mem)} = {OidOf(mem)}]_vars

\* The object in memory has been written a second time: its shard file was there.
IdempotentStoreWitness ==
    /\ last.op = "write_object" /\ last.st = "ok"
    /\ last.wr = {}
    /\ StoredRaw(fs, last.ret) = RawOf(mem)

\* The orders of a list of n elements
Perms(n) == {f \in [1 .. n -> 1 .. n] : \A i, j \in 1 .. n : f[i] = f[j] => i = j}

Permuted(records, f) == [i \in 1 .. Len(records) |-> records[f[i]]]

UniqueNames(records) ==
    \A i, j \in 1 .. Len(records) : records[i].path = records[j].path => i = j

\* The serialization is the same for every order of the list, and is the
\* records in an order of ascending sort keys.
Canonicalized(records) ==
    /\ \A f \in Perms(Len(records)) :
          tree_serialize(Permuted(records, f)) = tree_serialize(records)
    /\ \E f \in Perms(Len(records)) :
          /\ \A i \in 1 .. Len(records) - 1 :
                ~StrLess(tree_record_sort_key(records[f[i + 1]]),
                         tree_record_sort_key(records[f[i]]))
          /\ tree_serialize(records)
               = Flatten([i \in 1 .. Len(records) |->
                            records[f[i]].fmt \o <<SP>> \o records[f[i]].path \o <<SP>>
                            \o FromHex(records[f[i]].sha)])

\* C6 as stated: for a tree whose record names are unique, tree_serialize
\* returns the same bytes for every order of the record list, the records
\* sorted by name for files and name and "/" for directories.
TreeCanonicalization ==
    mem.fmt = B_tree /\ UniqueNames(mem.records) => Canonicalized(mem.records)

\* C6, amended: for a tree whose record names are unique and hold no "/",
\* tree_serialize returns the same bytes for every order of the record list,
\* the records sorted by name for files and name and "/" for directories.
TreeCanonicalizationLegal ==
    /\ mem.fmt = B_tree
    /\ UniqueNames(mem.records)
    /\ \A i \in 1 .. Len(mem.records) : PyFind(mem.records[i].path, SLASH, 0) < 0
    => Canonicalized(mem.records)

\* A tree of two records with legal names, listed against their sort order,
\* has been written.
TreeCanonicalizationWitness ==
    /\ mem.fmt = B_tree
    /\ Len(mem.records) = 2
    /\ UniqueNames(mem.records)
    /\ \A i \in 1 .. Len(mem.records) : PyFind(mem.records[i].path, SLASH, 0) < 0
    /\ SortRecords(mem.records) # mem.records
    /\ last.op = "write_object" /\ last.st = "ok"

\* C9: read_object returns None for an OID with no shard file; it fails with
\* a malformed-object error when the size in the stored header is not the
\* length of what follows the NUL or the kind is not known; otherwise it
\* returns the object of the header's kind made from what follows the NUL.
ReadObjectContract ==
    last.op = "read_object" =>
        IF last.arg \notin StoredOids(fs) THEN last.st = "ok" /\ last.none
        ELSE LET z == Decompress(fs[ShardPath(last.arg)].data)
                 raw == z.data
                 x == PyFind(raw, SP, 0)
                 y == PyFind(raw, NUL, x)
                 kind == PySlice(raw, 0, x)
                 size == PySlice(raw, x + 1, y)
                 payload == PySliceFrom(raw, y + 1)
                 wellformed == /\ x >= 0 /\ y >= 0
                               /\ size # <<>>
                               /\ \A i \in 1 .. Len(size) : IsDigit(size[i])
             IN z.ok /\ wellformed =>
                   IF DigitsValue(size, 0) # Len(payload) \/ kind \notin {B_blob, B_tree, B_commit}
                   THEN /\ last.st = "fault"
                        /\ last.err \in {"Exception(Malformed object)", "Exception(Unknown type)"}
                   ELSE /\ last.st = "ok"
                        /\ ~last.none
                        /\ last.ret = Deserialize(kind, payload).obj

====
